---------------------------- MODULE Spec2Model ----------------------------
(***************************************************************************)
(* A model of qib-jira.py: the one-way synchronisation of Jira issues into *)
(* a local sqlite table.  One pass of update() validates the credentials,  *)
(* connects, opens the store, fetches the matching issues page by page,    *)
(* normalises each issue into a 25-tuple, fingerprints it, skips, updates  *)
(* or inserts its row, commits once after the last page and pings the      *)
(* health-check endpoint.                                                  *)
(*                                                                         *)
(* Python values are tagged records: None, str, int, list, object, and an  *)
(* attribute that does not exist (reading it raises AttributeError).       *)
(* MD5 itself is idealised as collision free: a digest is represented by   *)
(* the byte string that was fed to it, so two digests are equal exactly    *)
(* when the concatenations they were computed from are equal.              *)
(***************************************************************************)
EXTENDS Integers, Sequences, FiniteSets, TLC

-----------------------------------------------------------------------------
(* Python values *)

None == [tag |-> "None"]
Str(s) == [tag |-> "str", v |-> s]
Num(n) == [tag |-> "int", v |-> n]
List(xs) == [tag |-> "list", v |-> xs]
Absent == [tag |-> "absent"]

\* Truth value of a Python object in `x if obj else None`: None is false,
\* a resource object is true.
Truthy(o) == o.tag # "None"

\* str(arg)
PyStr(a) ==
  CASE a.tag = "str" -> a.v
    [] a.tag = "int" -> ToString(a.v)
    [] a.tag = "None" -> "None"

\* sep.join(xs) for a sequence of strings
RECURSIVE Join(_, _)
Join(sep, xs) ==
  IF Len(xs) = 0 THEN ""
  ELSE IF Len(xs) = 1 THEN xs[1]
  ELSE xs[1] \o sep \o Join(sep, Tail(xs))

-----------------------------------------------------------------------------
(* calculate_md5 *)

\* hashlib.md5: update() appends to the message, hexdigest() is the digest
\* of the whole message.  The digest is represented by its message.
md5_hexdigest(m) == "md5(" \o m \o ")"

RECURSIVE Md5Message(_)
Md5Message(args) ==
  IF Len(args) = 0 THEN ""
  ELSE (IF args[1].tag # "None" THEN PyStr(args[1]) ELSE "")
         \o Md5Message(Tail(args))

calculate_md5(args) == md5_hexdigest(Md5Message(args))

-----------------------------------------------------------------------------
(* Normalisation of one issue into the 25-tuple `data` *)

\* Reading attribute chain o.a where o may be None or missing raises.
IsObj(o) == o.tag = "obj"

\* The attributes of issue.fields that the tuple reads directly.
FieldNames ==
  {"assignee", "created", "creator", "description", "duedate", "environment",
   "issuetype", "labels", "lastViewed", "priority", "project", "reporter",
   "resolution", "resolutiondate", "status", "summary", "updated",
   "timeoriginalestimate", "aggregatetimeestimate", "worklog", "timetracking",
   "customfield_10065"}

\* f"{x.timeSpent}|started:({(x.started)})"
WorklogSegment(x) == PyStr(x.timeSpent) \o "|started:(" \o PyStr(x.started) \o ")"

WorklogSegments(ws) == [i \in 1..Len(ws) |-> WorklogSegment(ws[i])]

\* Building the tuple raises (AttributeError or TypeError) when an attribute
\* is missing, when .name/.id/.key is read from None, or when join() is
\* given None.
NormalizeRaises(issue) ==
  \/ \E f \in FieldNames : issue.fields[f].tag = "absent"
  \/ ~IsObj(issue.fields.issuetype)
  \/ issue.fields.labels.tag # "list"
  \/ ~IsObj(issue.fields.priority)
  \/ ~IsObj(issue.fields.project)
  \/ ~IsObj(issue.fields.status)
  \/ ~IsObj(issue.fields.worklog)
  \/ ~IsObj(issue.fields.timetracking)

Normalize(issue) ==
  LET f == issue.fields IN
  << IF Truthy(f.assignee) THEN f.assignee.displayName ELSE None,
     IF Truthy(f.assignee) THEN f.assignee.accountId ELSE None,
     f.created,
     IF Truthy(f.creator) THEN f.creator.displayName ELSE None,
     f.description,
     f.duedate,
     f.environment,
     f.issuetype.name,
     issue.key,
     f.issuetype.id,
     Str(Join(", ", f.labels.v)),
     f.lastViewed,
     f.priority.name,
     f.project.key,
     IF Truthy(f.reporter) THEN f.reporter.displayName ELSE None,
     IF Truthy(f.resolution) THEN f.resolution.name ELSE None,
     f.resolutiondate,
     f.status.name,
     f.summary,
     f.updated,
     f.timeoriginalestimate,
     f.aggregatetimeestimate,
     Str(Join(", ", WorklogSegments(f.worklog.worklogs))),
     IF DOMAIN f.timetracking.raw # {}
       THEN (IF "timeSpent" \in DOMAIN f.timetracking.raw
               THEN f.timetracking.raw.timeSpent ELSE None)
       ELSE None,
     Str(PyStr(f.customfield_10065)) >>

\* len(data) + 1: the 25 fields and md5_hash
num_columns == 26
issue_key_col == 9
md5_hash_col == 26


-----------------------------------------------------------------------------
(* The sqlite table `issues`: a sequence of rows (in rowid order), each a   *)
(* 26-tuple of column values.  Every column is declared TEXT.               *)

\* Binding a parameter into a TEXT column: text and NULL are stored as they
\* are, an integer is converted to its decimal text (column affinity).
TextAffinity(a) == IF a.tag = "int" THEN Str(ToString(a.v)) ELSE a

\* The row written for `data + (md5_hash,)`
StoredRow(data, md5_hash) ==
  [c \in 1..num_columns |->
     IF c = md5_hash_col THEN Str(md5_hash) ELSE TextAffinity(data[c])]

\* `col = ?` in a WHERE clause: NULL compares equal to nothing.
SqlEq(colval, param) ==
  /\ colval.tag # "None"
  /\ param.tag # "None"
  /\ colval = TextAffinity(param)

\* SELECT * FROM issues WHERE md5_hash = ?  ... fetchone() is not None
HashPresent(table, md5_hash) ==
  \E r \in 1..Len(table) : SqlEq(table[r][md5_hash_col], Str(md5_hash))

\* SELECT * FROM issues WHERE issue_key = ?  ... fetchone() is not None
KeyPresent(table, key) ==
  \E r \in 1..Len(table) : SqlEq(table[r][issue_key_col], key)

\* INSERT INTO issues VALUES (?,...,?)
SqlInsert(table, data, md5_hash) == Append(table, StoredRow(data, md5_hash))

\* Variant: md5_hash is missing from the SET list
SqlUpdateKeepsHash(table, data, md5_hash, key) ==
  [r \in 1..Len(table) |->
     IF SqlEq(table[r][issue_key_col], key)
       THEN [StoredRow(data, md5_hash) EXCEPT ![md5_hash_col] = table[r][md5_hash_col]]
       ELSE table[r]]

\* UPDATE issues SET <all 26 columns> WHERE issue_key = ?
SqlUpdate(table, data, md5_hash, key) ==
  [r \in 1..Len(table) |->
     IF SqlEq(table[r][issue_key_col], key)
       THEN StoredRow(data, md5_hash) ELSE table[r]]

\* Variant: the key is never looked up
DecisionHashOnly(table, data, md5_hash, key) ==
  IF HashPresent(table, md5_hash) THEN "skip" ELSE "insert"

\* Variant: the key is looked up before the hash
DecisionKeyFirst(table, data, md5_hash, key) ==
  IF KeyPresent(table, key) THEN "update"
  ELSE IF HashPresent(table, md5_hash) THEN "skip"
  ELSE "insert"

\* Variant: the two branches of the key lookup are exchanged
DecisionSwapped(table, data, md5_hash, key) ==
  IF HashPresent(table, md5_hash) THEN "skip"
  ELSE IF KeyPresent(table, key) THEN "insert"
  ELSE "update"

\* The decision taken for one record: "skip", "update" or "insert"
Decision(table, data, md5_hash, key) ==
  IF HashPresent(table, md5_hash) THEN "skip"
  ELSE IF KeyPresent(table, key) THEN "update"
  ELSE "insert"

\* The table after the record has been processed
Upsert(table, data, md5_hash, key) ==
  CASE Decision(table, data, md5_hash, key) = "skip" -> table
    [] Decision(table, data, md5_hash, key) = "update" ->
         SqlUpdate(table, data, md5_hash, key)
    [] Decision(table, data, md5_hash, key) = "insert" ->
         SqlInsert(table, data, md5_hash)

-----------------------------------------------------------------------------
(* The remote issues the model draws from *)

Obj(attrs) == [tag |-> "obj"] @@ attrs

\* An issue with every optional attribute unset
PlainIssue(key, typeId, summary) ==
  [key |-> Str(key),
   fields |->
     [assignee |-> None, created |-> Str("2024-01-01"), creator |-> None,
      description |-> None, duedate |-> None, environment |-> None,
      issuetype |-> Obj([name |-> Str("Task"), id |-> Str(typeId)]),
      labels |-> List(<<>>), lastViewed |-> None,
      priority |-> Obj([name |-> Str("Low")]),
      project |-> Obj([key |-> Str("A")]),
      reporter |-> None, resolution |-> None, resolutiondate |-> None,
      status |-> Obj([name |-> Str("Open")]),
      summary |-> Str(summary), updated |-> Str("2024-01-02"),
      timeoriginalestimate |-> None, aggregatetimeestimate |-> None,
      worklog |-> Obj([worklogs |-> <<>>]),
      timetracking |-> Obj([raw |-> <<>>]),
      customfield_10065 |-> None]]

\* The same issue with the optional attributes set
FullIssue(key, typeId, summary) ==
  [PlainIssue(key, typeId, summary) EXCEPT
     !.fields.assignee = Obj([displayName |-> Str("Ann"), accountId |-> Str("u1")]),
     !.fields.creator = Obj([displayName |-> Str("Bob")]),
     !.fields.reporter = Obj([displayName |-> Str("Bob")]),
     !.fields.resolution = Obj([name |-> Str("Done")]),
     !.fields.labels = List(<<"x", "y">>),
     !.fields.timeoriginalestimate = Num(3600),
     !.fields.aggregatetimeestimate = Num(0),
     !.fields.worklog =
        Obj([worklogs |-> << [timeSpent |-> Str("1h"), started |-> Str("t1")],
                             [timeSpent |-> Str("2h"), started |-> Str("t2")] >>]),
     !.fields.timetracking = Obj([raw |-> [timeSpent |-> Str("3h")]]),
     !.fields.customfield_10065 = Str("ISP1")]

\* Two issues, A-1 and A-11, each in an old and a new version.  Key and
\* issue-type id are adjacent in the tuple, so "A-1" + "11" and "A-11" + "1"
\* feed the same bytes to the digest.
IssueA1old == PlainIssue("A-1", "11", "s")
IssueA1new == FullIssue("A-1", "11", "s")
IssueA11old == PlainIssue("A-11", "1", "s")
IssueA11new == FullIssue("A-11", "1", "s")
\* An issue without a priority: priority.name raises
IssueNoPriority == [PlainIssue("A-2", "1", "s") EXCEPT !.fields.priority = None]

Issues == {IssueA1old, IssueA1new, IssueA11old, IssueA11new, IssueNoPriority}

\* The issue at position i (from 1) of the remote result set beyond the head:
\* a distinct plain issue per position
FillerIssue(i) == PlainIssue("F-" \o ToString(i), "7", "f")


-----------------------------------------------------------------------------
(* Bounds of the model *)

\* Most issues a remote result set starts with that are drawn freely
MaxHead == 2
\* Most calls of update() the caller makes
MaxPasses == 2
\* Length of the last page of the three-page result set
ShortPage == 47

\* maxResults of every search request
max_results == 100

-----------------------------------------------------------------------------
(* The remote result set: `head` followed by filler issues, n issues in all *)

RECURSIVE SeqsUpTo(_, _)
SeqsUpTo(S, k) ==
  IF k = 0 THEN {<<>>}
  ELSE SeqsUpTo(S, k - 1) \cup
       {Append(q, x) : q \in {t \in SeqsUpTo(S, k - 1) : Len(t) = k - 1}, x \in S}

Remotes ==
  {[head |-> h, n |-> Len(h)] : h \in SeqsUpTo(Issues, MaxHead)}
  \cup {[head |-> <<>>, n |-> n] :
          n \in {max_results, 2 * max_results + ShortPage}}

RecordAt(r, i) == IF i <= Len(r.head) THEN r.head[i] ELSE FillerIssue(i)

\* jira.search_issues(jql_query, startAt=start, maxResults=max_results)
SearchIssues(r, start) ==
  LET last == IF start + max_results < r.n THEN start + max_results ELSE r.n
  IN  [j \in 1..(IF last > start THEN last - start ELSE 0) |-> RecordAt(r, start + j)]

\* The row the program writes for an issue
RowOf(issue) == StoredRow(Normalize(issue), calculate_md5(Normalize(issue)))

\* Tables earlier runs can have left: at most one row per key, no two rows
\* with the same md5_hash
InitTables ==
  LET good == {a \in Issues : ~NormalizeRaises(a)}
      one  == {<<RowOf(a)>> : a \in good}
      two  == {<<RowOf(a), RowOf(b)>> : a \in good, b \in good}
  IN  {<<>>} \cup one \cup
      {t \in two : /\ t[1][issue_key_col] # t[2][issue_key_col]
                   /\ t[1][md5_hash_col] # t[2][md5_hash_col]}

\* The clock ticks TicksPerDay times a day; time 0 is a midnight
TicksPerDay == 3

\* The clock reads at most MaxNow
MaxNow == 8

\* The window is at most MaxDays days long
MaxDays == 2

\* The project keys on the server
Projects == {"BSUP", "GEN"}

\* timedelta(days=days)
timedelta(d) == d * TicksPerDay

\* strftime("%Y-%m-%d"): the calendar day of a time, without the time of day
strftime(t) == t \div TicksPerDay

\* No query has been built
NoQuery == <<>>

\* Variant: the clause on createdDate is left out
BuildQueryUpdatedOnly(t, d, p) ==
  LET one_month_ago == t - timedelta(d)
      one_month_ago_str == strftime(one_month_ago)
  IN  <<[field |-> "updated", op |-> ">=", date |-> one_month_ago_str],
        [field |-> "project", op |-> "=", key |-> p]>>

\* one_month_ago = datetime.now() - timedelta(days=days)
\* jql_query = f"createdDate >= '{one_month_ago_str}' AND updated >=
\* '{one_month_ago_str}' AND project={project}": the clauses joined by AND
BuildQuery(t, d, p) ==
  LET one_month_ago == t - timedelta(d)
      one_month_ago_str == strftime(one_month_ago)
  IN  <<[field |-> "createdDate", op |-> ">=", date |-> one_month_ago_str],
        [field |-> "updated", op |-> ">=", date |-> one_month_ago_str],
        [field |-> "project", op |-> "=", key |-> p]>>

\* How the server reads a clause: a date without a time of day is the
\* midnight that starts the day
ClauseHolds(c, r) ==
  CASE c.field = "createdDate" -> r.created >= c.date * TicksPerDay
    [] c.field = "updated"     -> r.updated >= c.date * TicksPerDay
    [] c.field = "project"     -> r.project = c.key

\* A record of the server matches the query when every clause holds
Matches(q, r) == \A j \in 1..Len(q) : ClauseHolds(q[j], r)

\* What the server knows of a record for the query: its project and when
\* it was created and last updated (never before it was created)
AllRecords ==
  {r \in [project : Projects, created : 0..MaxNow, updated : 0..MaxNow] :
     r.created <= r.updated}

\* The records a search with the query returns
Selected(q) == {r \in AllRecords : Matches(q, r)}

-----------------------------------------------------------------------------
VARIABLES
  db,               \* the committed rows of table issues in the database file
  conn,             \* "closed" or "open": the connection of the running pass
  work,             \* the rows as the open connection sees them (uncommitted)
  remote,           \* the issues matching the query on the server
  HEALTH_CHECK_URL, \* the module global: None or an endpoint
  pc,               \* where update() stands; "idle" between calls
  start_at,         \* offset of the next page
  issues,           \* the page being processed
  idx,              \* position in the page of the next issue
  outcome,          \* what the last call of update() gave its caller
  passes,           \* calls of update() so far
  fetched,          \* this pass: the search requests issued, each with
                    \* its startAt and the length of the page it got
                    \* (-1 when the request failed)
  nInsert,          \* this pass: INSERT statements executed
  nUpdate,          \* this pass: UPDATE statements executed
  nSkip,            \* this pass: records skipped
  unstored,         \* this pass: keys skipped while no row had the key
  committed,        \* this pass: conn.commit() has returned
  pinged,           \* this pass: calls of requests.get by health_check
  errors,           \* this pass: calls of logging.error
  aborted,          \* this pass: the except clause of update() ran
  before,           \* db when this pass was called
  prevCommitted,    \* the pass before this one committed
  beforePrev,       \* db when the pass before this one was called
  email,            \* argument of the last call of update()
  token,            \* argument of the last call of update()
  days,             \* argument of update(): the length of the window
  project,          \* argument of update(): the project key
  now,              \* what datetime.now() reads, in ticks
  jql_query,        \* the query of the running pass
  connects,         \* this pass: calls of JIRA(...)
  prevDirty         \* the pass before this one executed an INSERT or an
                    \* UPDATE and reached the except clause

vars == <<db, conn, work, remote, HEALTH_CHECK_URL, email, token, days, project, now,
                 connects, prevDirty, pc, start_at, issues, idx,
          outcome, passes, fetched, nInsert, nUpdate, nSkip, unstored,
          committed, pinged, errors, aborted, before, prevCommitted,
          beforePrev, email, token, days, project, now, jql_query, connects,
          prevDirty>>

\* The process before it calls update() for the first time
BeforeFirstCall ==
  /\ conn = "closed"
  /\ work = <<>>
  /\ pc = "idle"
  /\ start_at = 0
  /\ issues = <<>>
  /\ idx = 1
  /\ outcome = "none"
  /\ passes = 0
  /\ fetched = <<>>
  /\ nInsert = 0
  /\ nUpdate = 0
  /\ nSkip = 0
  /\ unstored = {}
  /\ committed = FALSE
  /\ pinged = 0
  /\ errors = 0
  /\ aborted = FALSE
  /\ before = db
  /\ prevCommitted = FALSE
  /\ beforePrev = db
  /\ email = None
  /\ token = None
  /\ jql_query = NoQuery
  /\ connects = 0
  /\ prevDirty = FALSE

\* The multi-page result sets are run against a database that starts empty.
\* The window, the project and the clock are fixed here and vary in
\* InitQuery.
Init ==
  /\ remote \in Remotes
  /\ db \in IF remote.n > Len(remote.head) THEN {<<>>} ELSE InitTables
  /\ HEALTH_CHECK_URL \in {None, Str("https://hc")}
  /\ days = MaxDays
  /\ project = "BSUP"
  /\ now = MaxNow
  /\ BeforeFirstCall

\* Every window, project and clock reading, against a result set of one
\* issue and an empty database
InitQuery ==
  /\ remote = [head |-> <<IssueA1old>>, n |-> 1]
  /\ db = <<>>
  /\ HEALTH_CHECK_URL = Str("https://hc")
  /\ days \in 0..MaxDays
  /\ project \in Projects
  /\ now \in 0..MaxNow
  /\ BeforeFirstCall

\* update() is left: its locals go with the frame.  A connection dropped
\* without commit() loses its open transaction.
Return ==
  /\ conn' = "closed"
  /\ work' = <<>>
  /\ start_at' = 0
  /\ issues' = <<>>
  /\ idx' = 1
  /\ jql_query' = NoQuery
  /\ pc' = "idle"

\* Variant: the except clause commits what the pass has written so far
ExceptCommits ==
  /\ errors' = errors + 1
  /\ aborted' = TRUE
  /\ outcome' = "returned"
  /\ Return
  /\ db' = work
  /\ UNCHANGED <<committed, pinged>>

\* except Exception as e: logging.error(e) -- and update() returns None.
Except ==
  /\ errors' = errors + 1
  /\ aborted' = TRUE
  /\ outcome' = "returned"
  /\ Return
  /\ UNCHANGED <<db, committed, pinged>>

\* An exception raised outside the try statement leaves update(): the
\* caller sees it raised.
Raise ==
  /\ outcome' = "raised"
  /\ Return

\* Variant: autocommit, every statement is durable at once
Autocommit(committedRows, connRows) == connRows

\* sqlite3.connect() with the default isolation level: INSERT and UPDATE run
\* inside an implicitly opened transaction, so the database file keeps the
\* committed rows until commit().
ImplicitTransaction(committedRows, connRows) == committedRows

\* Variant: <= for <
LastPageInclusive(page) == Len(page) <= max_results

\* if len(issues) < max_results: break
LastPage(page) == Len(page) < max_results

\* Variant: update() without the check of its arguments
CallUnchecked ==
  /\ pc = "idle"
  /\ outcome # "raised"
  /\ passes < MaxPasses
  /\ passes' = passes + 1
  /\ fetched' = <<>>
  /\ nInsert' = 0
  /\ nUpdate' = 0
  /\ nSkip' = 0
  /\ unstored' = {}
  /\ committed' = FALSE
  /\ pinged' = 0
  /\ errors' = 0
  /\ aborted' = FALSE
  /\ before' = db
  /\ prevCommitted' = committed
  /\ beforePrev' = before
  /\ connects' = 0
  /\ prevDirty' = (aborted /\ nInsert + nUpdate > 0)
  /\ email' \in {None, Str("e")}
  /\ token' \in {None, Str("t")}
  /\ pc' = "connect"
  /\ outcome' = "none"
  /\ UNCHANGED <<conn, work, start_at, jql_query, issues, idx>>
  /\ UNCHANGED <<db, remote, HEALTH_CHECK_URL, days, project, now>>

\* main() calls update(), once or from the scheduler loop; an exception out
\* of update() ends the process.  update() starts by checking its arguments.
Call ==
  /\ pc = "idle"
  /\ outcome # "raised"
  /\ passes < MaxPasses
  /\ passes' = passes + 1
  /\ fetched' = <<>>
  /\ nInsert' = 0
  /\ nUpdate' = 0
  /\ nSkip' = 0
  /\ unstored' = {}
  /\ committed' = FALSE
  /\ pinged' = 0
  /\ errors' = 0
  /\ aborted' = FALSE
  /\ before' = db
  /\ prevCommitted' = committed
  /\ beforePrev' = before
  /\ connects' = 0
  /\ prevDirty' = (aborted /\ nInsert + nUpdate > 0)
  /\ email' \in {None, Str("e")}
  /\ token' \in {None, Str("t")}
  /\ IF email' = None \/ token' = None
       THEN Raise
       ELSE /\ pc' = "connect"
            /\ outcome' = "none"
            /\ UNCHANGED <<conn, work, start_at, jql_query, issues, idx>>
  /\ UNCHANGED <<db, remote, HEALTH_CHECK_URL, days, project, now>>

\* jira = JIRA(server, basic_auth), which asks the server and may raise;
\* jql_query = ...; max_results = 100; start_at = 0
Connect ==
  /\ pc = "connect"
  /\ connects' = connects + 1
  /\ \/ /\ pc' = "open"
        /\ jql_query' = BuildQuery(now, days, project)
        /\ start_at' = 0
        /\ UNCHANGED <<conn, work, issues, idx, outcome>>
     \/ Raise
  /\ UNCHANGED <<db, remote, HEALTH_CHECK_URL, email, token, days, project,
                 now, prevDirty, passes, fetched, nInsert, nUpdate, nSkip,
                 unstored, committed, pinged, errors, aborted, before,
                 prevCommitted, beforePrev>>

\* Variant: the table is dropped and created anew by every pass
OpenStoreRecreate ==
  /\ pc = "open"
  /\ \/ /\ conn' = "open"
        /\ work' = <<>>
        /\ pc' = "fetch"
        /\ UNCHANGED <<start_at, jql_query, issues, idx, outcome>>
     \/ Raise
  /\ UNCHANGED <<db, remote, HEALTH_CHECK_URL, email, token, days, project, now,
                 connects, prevDirty, passes, fetched, nInsert,
                 nUpdate, nSkip, unstored, committed, pinged, errors, aborted,
                 before, prevCommitted, beforePrev>>

\* conn = sqlite3.connect(...); CREATE TABLE IF NOT EXISTS issues
OpenStore ==
  /\ pc = "open"
  /\ \/ /\ conn' = "open"
        /\ work' = db
        /\ pc' = "fetch"
        /\ UNCHANGED <<start_at, jql_query, issues, idx, outcome>>
     \/ Raise
  /\ UNCHANGED <<db, remote, HEALTH_CHECK_URL, email, token, days, project, now,
                 connects, prevDirty, passes, fetched, nInsert,
                 nUpdate, nSkip, unstored, committed, pinged, errors, aborted,
                 before, prevCommitted, beforePrev>>

\* Variant: a failed search request is logged and the same page is
\* requested again
FetchRetry ==
  /\ pc = "fetch"
  /\ \/ /\ issues' = SearchIssues(remote, start_at)
        /\ fetched' = Append(fetched, [startAt |-> start_at, got |-> Len(issues')])
        /\ idx' = 1
        /\ pc' = "loop"
        /\ UNCHANGED <<db, conn, work, start_at, jql_query, outcome, committed, pinged,
                       errors, aborted>>
     \/ /\ Len(fetched) < 4
        /\ fetched' = Append(fetched, [startAt |-> start_at, got |-> -1])
        /\ errors' = errors + 1
        /\ UNCHANGED <<db, conn, work, start_at, jql_query, issues, idx, pc, outcome,
                       committed, pinged, aborted>>
  /\ UNCHANGED <<remote, HEALTH_CHECK_URL, email, token, days, project, now,
                 connects, prevDirty, passes, nInsert, nUpdate, nSkip,
                 unstored, before, prevCommitted, beforePrev>>

\* issues = jira.search_issues(jql_query, startAt=start_at, maxResults=max_results)
Fetch ==
  /\ pc = "fetch"
  /\ \/ /\ issues' = SearchIssues(remote, start_at)
        /\ fetched' = Append(fetched, [startAt |-> start_at, got |-> Len(issues')])
        /\ idx' = 1
        /\ pc' = "loop"
        /\ UNCHANGED <<db, conn, work, start_at, jql_query, outcome, committed, pinged,
                       errors, aborted>>
     \/ /\ fetched' = Append(fetched, [startAt |-> start_at, got |-> -1])
        /\ Except
  /\ UNCHANGED <<remote, HEALTH_CHECK_URL, email, token, days, project, now,
                 connects, prevDirty, passes, nInsert, nUpdate, nSkip,
                 unstored, before, prevCommitted, beforePrev>>

\* One iteration of `for issue in issues`: build data, hash it, look the
\* hash and the key up, insert or update.  Any statement may raise.
ProcessIssue ==
  /\ pc = "loop"
  /\ idx <= Len(issues)
  /\ LET issue == issues[idx] IN
     \/ /\ NormalizeRaises(issue)
        /\ Except
        /\ UNCHANGED <<nInsert, nUpdate, nSkip, unstored>>
     \/ /\ ~NormalizeRaises(issue)
        /\ LET data == Normalize(issue)
               md5_hash == calculate_md5(data)
               d == Decision(work, data, md5_hash, issue.key)
           IN  /\ work' = Upsert(work, data, md5_hash, issue.key)
               /\ db' = ImplicitTransaction(db, work')
               /\ nInsert' = nInsert + (IF d = "insert" THEN 1 ELSE 0)
               /\ nUpdate' = nUpdate + (IF d = "update" THEN 1 ELSE 0)
               /\ nSkip' = nSkip + (IF d = "skip" THEN 1 ELSE 0)
               /\ unstored' =
                    IF d = "skip" /\ ~KeyPresent(work, issue.key)
                      THEN unstored \cup {issue.key} ELSE unstored
        /\ idx' = idx + 1
        /\ UNCHANGED <<conn, pc, start_at, jql_query, issues, outcome, committed, pinged,
                       errors, aborted>>
     \/ /\ ~NormalizeRaises(issue)
        /\ Except
        /\ UNCHANGED <<nInsert, nUpdate, nSkip, unstored>>
  /\ UNCHANGED <<remote, HEALTH_CHECK_URL, email, token, days, project, now,
                 connects, prevDirty, passes, fetched, before,
                 prevCommitted, beforePrev>>

\* Variant: conn.commit() at the end of every page
PageEndCommits ==
  /\ pc = "loop"
  /\ idx > Len(issues)
  /\ IF LastPage(issues)
       THEN pc' = "commit" /\ start_at' = start_at
       ELSE pc' = "fetch" /\ start_at' = start_at + max_results
  /\ db' = work
  /\ UNCHANGED <<conn, work, remote, HEALTH_CHECK_URL, email, token, days, project, now,
                 connects, prevDirty, jql_query, issues, idx,
                 outcome, passes, fetched, nInsert, nUpdate, nSkip, unstored,
                 committed, pinged, errors, aborted, before, prevCommitted,
                 beforePrev>>

\* The end of the while body: break on a short page, else
\* start_at += max_results
PageEnd ==
  /\ pc = "loop"
  /\ idx > Len(issues)
  /\ IF LastPage(issues)
       THEN pc' = "commit" /\ start_at' = start_at
       ELSE pc' = "fetch" /\ start_at' = start_at + max_results
  /\ UNCHANGED <<db, conn, work, remote, HEALTH_CHECK_URL, email, token, days, project, now,
                 connects, prevDirty, jql_query, issues, idx,
                 outcome, passes, fetched, nInsert, nUpdate, nSkip, unstored,
                 committed, pinged, errors, aborted, before, prevCommitted,
                 beforePrev>>

\* conn.commit(); conn.close(); logging.info("Completed!")
Commit ==
  /\ pc = "commit"
  /\ \/ /\ db' = work
        /\ conn' = "closed"
        /\ work' = <<>>
        /\ committed' = TRUE
        /\ pc' = "health"
        /\ UNCHANGED <<start_at, jql_query, issues, idx, outcome, pinged, errors, aborted>>
     \/ Except
  /\ UNCHANGED <<remote, HEALTH_CHECK_URL, email, token, days, project, now,
                 connects, prevDirty, passes, fetched, nInsert, nUpdate,
                 nSkip, unstored, before, prevCommitted, beforePrev>>

\* Variant: health_check without its try statement; the exception is the
\* caller's
HealthCheckUncaught ==
  /\ pc = "health"
  /\ pinged' = pinged + 1
  /\ \/ HEALTH_CHECK_URL # None /\ errors' = errors /\ outcome' = "returned"
     \/ errors' = errors /\ outcome' = "raised"
  /\ Return
  /\ UNCHANGED <<db, remote, HEALTH_CHECK_URL, email, token, days, project, now,
                 connects, prevDirty, passes, fetched, nInsert,
                 nUpdate, nSkip, unstored, committed, aborted, before,
                 prevCommitted, beforePrev>>

\* health_check(HEALTH_CHECK_URL): requests.get; a RequestException (an
\* unset endpoint gives MissingSchema) is caught and logged.  Then update()
\* returns None.
HealthCheck ==
  /\ pc = "health"
  /\ pinged' = pinged + 1
  /\ \/ HEALTH_CHECK_URL # None /\ errors' = errors
     \/ errors' = errors + 1
  /\ outcome' = "returned"
  /\ Return
  /\ UNCHANGED <<db, remote, HEALTH_CHECK_URL, email, token, days, project, now,
                 connects, prevDirty, passes, fetched, nInsert,
                 nUpdate, nSkip, unstored, committed, aborted, before,
                 prevCommitted, beforePrev>>

Next ==
  \/ Call
  \/ Connect
  \/ OpenStore
  \/ Fetch
  \/ ProcessIssue
  \/ PageEnd
  \/ Commit
  \/ HealthCheck

Spec == Init /\ [][Next]_vars

SpecQuery == InitQuery /\ [][Next]_vars


-----------------------------------------------------------------------------
(* Properties *)

KeysOf(table) == {table[r][issue_key_col] : r \in 1..Len(table)}

OneRowPerKey(table) == Cardinality(KeysOf(table)) = Len(table)

RemoteKey(i) == RecordAt(remote, i).key

RemoteFingerprint(i) == calculate_md5(Normalize(RecordAt(remote, i)))

\* Every issue occurs once in the remote result set
DistinctRemoteKeys ==
  Cardinality({RemoteKey(i) : i \in 1..remote.n}) = remote.n

\* Some row of the table has the fingerprint of remote record i under
\* another key than that record's
ForeignFingerprint(table, i) ==
  \E r \in 1..Len(table) :
    /\ table[r][md5_hash_col] = Str(RemoteFingerprint(i))
    /\ table[r][issue_key_col] # RemoteKey(i)

\* C1: the issues table, committed or as the running pass sees it, never
\* holds two rows with the same issue key, whatever pages the passes fetch
\* (the same key twice in a page included).
C1_AtMostOneRow ==
  /\ OneRowPerKey(db)
  /\ conn = "open" => OneRowPerKey(work)

\* A second committed pass over a page that holds issue A-1 twice, on a
\* table that also has a row for A-11
C1_Witness ==
  /\ passes = 2
  /\ prevCommitted
  /\ committed
  /\ remote.head = <<IssueA1old, IssueA1new>>
  /\ Len(db) = 2

\* C2 as stated: a committed pass that follows a committed pass over the
\* same remote records writes nothing and leaves the store unchanged.
C2_Idempotence ==
  (prevCommitted /\ committed) =>
    (nInsert = 0 /\ nUpdate = 0 /\ db = before)

\* C2 as amended: the same, when every issue occurs once in the remote
\* records and none of them has the fingerprint of a row stored, before the
\* first of the two passes, under another key.
C2_IdempotenceAmended ==
  (/\ prevCommitted
   /\ committed
   /\ DistinctRemoteKeys
   /\ \A i \in 1..remote.n : ~ForeignFingerprint(beforePrev, i)) =>
    (nInsert = 0 /\ nUpdate = 0 /\ nSkip = remote.n /\ db = before)

\* The first pass inserted one issue and updated the other, the second
\* skipped both
C2_Witness ==
  /\ prevCommitted
  /\ committed
  /\ remote.head = <<IssueA1new, IssueA11old>>
  /\ Len(beforePrev) = 1
  /\ db # beforePrev
  /\ nSkip = 2

\* C3: a pass that ran into the except clause leaves the committed rows as
\* they were when the pass was called.
C3_AtomicRollback == aborted => db = before

\* The fetch of the third page failed after two full pages were inserted
C3_Witness ==
  /\ aborted
  /\ pc = "idle"
  /\ fetched = << [startAt |-> 0, got |-> max_results],
                  [startAt |-> max_results, got |-> max_results],
                  [startAt |-> 2 * max_results, got |-> -1] >>
  /\ nInsert = 2 * max_results
  /\ db = <<>>


\* A step of the loop body that processed the record issues[idx] to its end
Processed == pc = "loop" /\ idx <= Len(issues) /\ idx' = idx + 1

RowsOfKey(table, key) ==
  {r \in 1..Len(table) : SqlEq(table[r][issue_key_col], key)}

\* The row of key K is the record `data` with fingerprint F, and the only one
OnlyRowIs(table, key, data, md5_hash) ==
  /\ Cardinality(RowsOfKey(table, key)) = 1
  /\ \A r \in RowsOfKey(table, key) :
       /\ table[r][md5_hash_col] = Str(md5_hash)
       /\ \A c \in 1..(num_columns - 1) : table[r][c] = TextAffinity(data[c])

\* C4 as stated: a record whose key has a row with another fingerprint is
\* written by exactly one update, and then the key has exactly one row,
\* with the record's fingerprint and fields.
C4_ChangeDetection ==
  [][Processed =>
       LET K == issues[idx].key
           data == Normalize(issues[idx])
           F2 == calculate_md5(data)
       IN  (\E r \in RowsOfKey(work, K) : work[r][md5_hash_col] # Str(F2)) =>
             /\ nUpdate' = nUpdate + 1
             /\ nInsert' = nInsert
             /\ OnlyRowIs(work', K, data, F2)]_vars

\* C4 as amended: the same, for a record whose fingerprint no stored row has.
C4_ChangeDetectionAmended ==
  [][Processed =>
       LET K == issues[idx].key
           data == Normalize(issues[idx])
           F2 == calculate_md5(data)
       IN  (/\ \E r \in RowsOfKey(work, K) : work[r][md5_hash_col] # Str(F2)
            /\ ~HashPresent(work, F2)) =>
             /\ nUpdate' = nUpdate + 1
             /\ nInsert' = nInsert
             /\ OnlyRowIs(work', K, data, F2)]_vars

\* The first record of the page has just replaced the row its key had
C4_Witness ==
  /\ pc = "loop"
  /\ idx = 2
  /\ nUpdate = 1
  /\ KeyPresent(before, issues[1].key)
  /\ ~HashPresent(before, calculate_md5(Normalize(issues[1])))
  /\ OnlyRowIs(work, issues[1].key, Normalize(issues[1]),
               calculate_md5(Normalize(issues[1])))

\* C5 as stated: after a committed pass every key of the remote result set
\* has a row.
C5_RowCreation ==
  committed => \A i \in 1..remote.n : KeyPresent(db, RemoteKey(i))

\* C5 as amended: after a committed pass every key of the remote result set
\* has a row, unless its record was skipped, no row having the key, because
\* a row of another key had the record's fingerprint.
C5_RowCreationAmended ==
  committed =>
    \A i \in 1..remote.n :
      KeyPresent(db, RemoteKey(i)) \/ RemoteKey(i) \in unstored

\* A committed pass inserted a new key beside the row the table had
C5_Witness ==
  /\ committed
  /\ nInsert = 1
  /\ unstored = {}
  /\ Len(before) = 1
  /\ Len(db) = 2

\* C6: the requests of a pass have startAt 0, 100, 200, ... in this order;
\* no request follows a page shorter than 100; the loop is left for the
\* commit only after such a page; the pages of 100, 100 and ShortPage issues
\* take three requests.
C6_Pagination ==
  /\ \A j \in 1..Len(fetched) : fetched[j].startAt = (j - 1) * max_results
  /\ \A j \in 1..(Len(fetched) - 1) : fetched[j].got = max_results
  /\ (pc \in {"commit", "health"} \/ committed) =>
       /\ ~aborted
       /\ fetched # <<>>
       /\ fetched[Len(fetched)].got >= 0
       /\ fetched[Len(fetched)].got < max_results
  /\ (committed /\ remote.n = 2 * max_results + ShortPage) =>
       Len(fetched) = 3

\* The pass over 100, 100 and ShortPage issues has committed
C6_Witness ==
  /\ committed
  /\ fetched = << [startAt |-> 0, got |-> max_results],
                  [startAt |-> max_results, got |-> max_results],
                  [startAt |-> 2 * max_results, got |-> ShortPage] >>


\* C7: the caller of update() can tell a pass that was aborted by a fetch,
\* normalisation or write error from one that committed: a committed pass
\* returns normally, so an aborted one must not.
C7_ErrorPropagation == (pc = "idle" /\ aborted) => outcome # "returned"

\* What update() does instead: an aborted pass has logged its error and
\* returned as a committed pass does; only the steps before the first fetch
\* (the credentials check, the Jira connection, opening the store) raise.
AbortedPassReturns ==
  /\ (pc = "idle" /\ aborted) =>
       (outcome = "returned" /\ errors >= 1 /\ ~committed)
  /\ (pc = "idle" /\ outcome = "raised") =>
       (~aborted /\ ~committed /\ fetched = <<>>)

\* C8: a processed record is skipped, and the table unchanged, when some row
\* has its fingerprint; else the rows of its key are overwritten, and the
\* others unchanged, when its key has a row; else one row is appended and
\* the others are unchanged.  Exactly one of the three is counted.
C8_UpsertDecision ==
  [][Processed =>
       LET K == issues[idx].key
           data == Normalize(issues[idx])
           F == calculate_md5(data)
           n == Len(work)
       IN  /\ <<nSkip', nUpdate', nInsert'>> \in
                {<<nSkip + 1, nUpdate, nInsert>>,
                 <<nSkip, nUpdate + 1, nInsert>>,
                 <<nSkip, nUpdate, nInsert + 1>>}
           /\ IF \E r \in 1..n : work[r][md5_hash_col] = Str(F)
                THEN nSkip' = nSkip + 1 /\ work' = work
              ELSE IF \E r \in 1..n : work[r][issue_key_col] = K
                THEN /\ nUpdate' = nUpdate + 1
                     /\ Len(work') = n
                     /\ \A r \in 1..n :
                          work'[r] = IF work[r][issue_key_col] = K
                                       THEN StoredRow(data, F) ELSE work[r]
              ELSE /\ nInsert' = nInsert + 1
                   /\ Len(work') = n + 1
                   /\ \A r \in 1..n : work'[r] = work[r]
                   /\ work'[n + 1] = StoredRow(data, F)]_vars

\* The first record of the page was updated; the second, whose key has no
\* row, was skipped for the fingerprint of another key's row
C8_Witness ==
  /\ pc = "loop"
  /\ idx = 3
  /\ nUpdate = 1
  /\ nSkip = 1
  /\ ~KeyPresent(work, issues[2].key)

RowFingerprint(row) == calculate_md5(SubSeq(row, 1, num_columns - 1))

HashConsistent(table) ==
  \A r \in 1..Len(table) : table[r][md5_hash_col] = Str(RowFingerprint(table[r]))

\* C9: in the committed table and in the table the running pass sees, the
\* md5_hash of every row is the fingerprint of the other 25 columns of the
\* row.
C9_FingerprintConsistency == HashConsistent(db) /\ HashConsistent(work)

\* The running pass has overwritten a row with a record whose estimate, an
\* integer, is stored as text
C9_Witness ==
  /\ conn = "open"
  /\ nUpdate >= 1
  /\ \E r \in 1..Len(work) : work[r][21] = Str("3600")

AtRecord == pc = "loop" /\ idx <= Len(issues)

\* C11: building the tuple of an issue that has a key never raises,
\* whichever of its other attributes are None.
C11_NormalizerTotality ==
  (AtRecord /\ issues[idx].key.tag = "str") => ~NormalizeRaises(issues[idx])

\* The issue with one attribute of issue.fields replaced
WithField(issue, f, val) == [issue EXCEPT !.fields[f] = val]

Fingerprint(issue) == calculate_md5(Normalize(issue))

\* The attributes of issue.fields that go into the tuple as plain values
ScalarFields ==
  {"created", "description", "duedate", "environment", "lastViewed",
   "resolutiondate", "summary", "updated", "timeoriginalestimate",
   "aggregatetimeestimate", "customfield_10065"}

\* C12: for the record being processed and each plain field of it, the
\* record with the field None has the fingerprint of the record with the
\* field "", and not that of the record with the field "None".
C12_NullSkipped ==
  (AtRecord /\ ~NormalizeRaises(issues[idx])) =>
    \A f \in ScalarFields :
      /\ Fingerprint(WithField(issues[idx], f, None))
           = Fingerprint(WithField(issues[idx], f, Str("")))
      /\ Fingerprint(WithField(issues[idx], f, None))
           # Fingerprint(WithField(issues[idx], f, Str("None")))

\* What the code does: the claim of C12 for every plain field but the
\* custom field, whose None is turned into "None" by str() before hashing.
NullSkippedButCustomField ==
  (AtRecord /\ ~NormalizeRaises(issues[idx])) =>
    /\ \A f \in ScalarFields \ {"customfield_10065"} :
         /\ Fingerprint(WithField(issues[idx], f, None))
              = Fingerprint(WithField(issues[idx], f, Str("")))
         /\ Fingerprint(WithField(issues[idx], f, None))
              # Fingerprint(WithField(issues[idx], f, Str("None")))
    /\ Fingerprint(WithField(issues[idx], "customfield_10065", None))
         = Fingerprint(WithField(issues[idx], "customfield_10065", Str("None")))
    /\ Fingerprint(WithField(issues[idx], "customfield_10065", None))
         # Fingerprint(WithField(issues[idx], "customfield_10065", Str("")))


\* A search request of this pass has failed
FetchFailed == \E j \in 1..Len(fetched) : fetched[j].got = -1

\* C13: once a search request of a pass has failed, the pass is over: the
\* failed request is the last one, update() has been left through the
\* except clause, nothing was committed, no ping was sent and the database
\* is as it was; and no offset is requested twice in a pass.
C13_FetchErrorAborts ==
  /\ FetchFailed =>
       /\ fetched[Len(fetched)].got = -1
       /\ \A j \in 1..(Len(fetched) - 1) : fetched[j].got = max_results
       /\ pc = "idle"
       /\ conn = "closed"
       /\ aborted
       /\ ~committed
       /\ pinged = 0
       /\ db = before
       /\ nInsert + nUpdate + nSkip = (Len(fetched) - 1) * max_results
  /\ \A j, k \in 1..Len(fetched) :
       fetched[j].startAt = fetched[k].startAt => j = k

\* The second request fails after the 100 inserts of the first page
C13_Witness ==
  /\ fetched = <<[startAt |-> 0, got |-> max_results],
                 [startAt |-> max_results, got |-> -1]>>
  /\ nInsert = max_results
  /\ pc = "idle"
  /\ db = <<>>


\* The keys of the search result on the server
RemoteKeys == {RemoteKey(i) : i \in 1..remote.n}

\* C14: no step of any pass, committed or aborted, takes an issue key out
\* of the database, nor lowers its number of rows.
C14_NoRowDeleted ==
  [][/\ KeysOf(db) \subseteq KeysOf(db')
     /\ Len(db) <= Len(db')]_vars

\* A pass has committed changes and a key the server did not return is
\* still stored
C14_Witness ==
  /\ committed
  /\ db # before
  /\ \E key \in KeysOf(before) : key \notin RemoteKeys /\ key \in KeysOf(db)


\* The records of the pages fetched so far in this pass
RecordsFetched ==
  IF fetched = <<>> THEN 0
  ELSE (Len(fetched) - 1) * max_results
         + (IF fetched[Len(fetched)].got < 0 THEN 0
            ELSE fetched[Len(fetched)].got)

\* C15: the database changes only in the commit step, which is taken after
\* a short page whose records, like those of every page before it, have
\* all been processed; after the commit the pass executes no statement and
\* changes the database no more.
C15_SingleCommit ==
  [][/\ (db' # db \/ (committed' /\ ~committed)) =>
          /\ pc = "commit"
          /\ ~committed /\ committed'
          /\ db' = work
          /\ fetched # <<>>
          /\ fetched[Len(fetched)].got >= 0
          /\ fetched[Len(fetched)].got < max_results
          /\ idx > Len(issues)
          /\ nInsert + nUpdate + nSkip = RecordsFetched
     /\ (committed /\ committed') =>
          /\ db' = db
          /\ fetched' = fetched
          /\ nInsert' = nInsert /\ nUpdate' = nUpdate /\ nSkip' = nSkip]_vars

\* Three pages, 247 inserts, committed
C15_Witness ==
  /\ committed
  /\ Len(fetched) = 3
  /\ nInsert = 2 * max_results + ShortPage
  /\ Len(db) = nInsert
  /\ before = <<>>

\* C18: a pass that commits against a result set of remote.n records has
\* issued remote.n \div 100 + 1 search requests; when remote.n is a multiple
\* of 100 the last of them got an empty page, and when it is 0 the pass
\* executed no statement.
C18_FetchCount ==
  committed =>
    /\ Len(fetched) = (remote.n \div max_results) + 1
    /\ \A j \in 1..Len(fetched) :
         /\ fetched[j].startAt = (j - 1) * max_results
         /\ fetched[j].got = IF j < Len(fetched) THEN max_results
                             ELSE remote.n % max_results
    /\ remote.n = 0 =>
         /\ nInsert = 0 /\ nUpdate = 0 /\ nSkip = 0
         /\ db = before

\* 100 records: a full page and then an empty one, committed
C18_Witness ==
  /\ committed
  /\ remote.n = max_results
  /\ fetched = <<[startAt |-> 0, got |-> max_results],
                 [startAt |-> max_results, got |-> 0]>>
  /\ Len(db) = max_results

\* No records: one request, committed without a statement
C18_WitnessEmpty ==
  /\ committed
  /\ remote.n = 0
  /\ fetched = <<[startAt |-> 0, got |-> 0]>>
  /\ nInsert + nUpdate + nSkip = 0


\* C16: when update() was called without email or without token it was
\* left at once with the exception raised to its caller: JIRA(...) was not
\* called, no search request was issued, no query was built, no connection
\* to the database was opened and the database is as it was.
C16_CredentialsFailFast ==
  (passes > 0 /\ (email = None \/ token = None)) =>
    /\ pc = "idle"
    /\ outcome = "raised"
    /\ connects = 0
    /\ fetched = <<>>
    /\ jql_query = NoQuery
    /\ conn = "closed"
    /\ work = <<>>
    /\ db = before
    /\ ~committed /\ ~aborted /\ errors = 0 /\ pinged = 0

\* The second call, after a pass that committed rows, has an email and no
\* token
C16_Witness ==
  /\ passes = 2
  /\ email # None
  /\ token = None
  /\ prevCommitted
  /\ db # <<>>
  /\ outcome = "raised"


\* The start of the window: now minus its length
WindowStart == now - timedelta(days)

\* The midnight that starts the calendar day of the start of the window
WindowStartDay == strftime(WindowStart) * TicksPerDay

RECURSIVE ApplyRecords(_, _, _, _)
\* The table after the records lo..hi of the result set r have been
\* processed on it in order; the range is split in halves and the first
\* half is computed before the second to keep the evaluation shallow
ApplyRecords(table, r, lo, hi) ==
  IF lo > hi THEN table
  ELSE IF lo = hi
    THEN LET issue == RecordAt(r, lo)
             data == Normalize(issue)
         IN  Upsert(table, data, calculate_md5(data), issue.key)
    ELSE LET mid == (lo + hi) \div 2
             half == ApplyRecords(table, r, lo, mid)
         IN  IF Len(half) >= 0 THEN ApplyRecords(half, r, mid + 1, hi)
             ELSE half

\* C19: a pass starts from the committed rows alone and only its own commit
\* changes the database: while a pass has not committed, the database is as
\* it was when the pass was called; a new connection sees the committed
\* rows; after its commit the database is what processing exactly the
\* records of this pass on those rows gives; and a pass that follows one
\* that did not commit starts from the rows that one started from.
C19_PassIsolation ==
  /\ ~committed => db = before
  /\ (pc = "fetch" /\ fetched = <<>>) => work = db
  /\ committed => db = ApplyRecords(before, remote, 1, remote.n)
  /\ (passes >= 2 /\ ~prevCommitted) => before = beforePrev

\* The pass after one that was aborted with statements executed has
\* committed its own changes
C19_Witness ==
  /\ passes = 2
  /\ prevDirty
  /\ ~prevCommitted
  /\ committed
  /\ nInsert > 0
  /\ db # before

=============================================================================
